---- MODULE Spec2Model ----
(***************************************************************************)
(* Model of metadata.py: the BAG synchronisation script.  One run of       *)
(* check_and_update_bag_data is a process that walks through the HEAD      *)
(* request, the freshness decision, the archive download, the two          *)
(* conversion subprocesses, the transactional table load and the           *)
(* watermark upsert.  The remote server, the conversion tool and the       *)
(* operator (who may damage the local archive between runs) are the        *)
(* environment.                                                            *)
(***************************************************************************)
EXTENDS Integers, Sequences, FiniteSets, TLC

\* ---------------------------------------------------------------- bounds
NProcs  == 2    \* script invocations that exist; Spec runs them one at a time
MaxTime == 2    \* calendar instants a Last-Modified header can name
NChunks == 2    \* chunks iter_content yields for one archive body
MaxRows == 2    \* rows of a tabular export

Procs == 1..NProcs

\* ------------------------------------------------------------ value space
\* A header string "Tue, 15 Nov 1994 12:45:26 GMT" is the pair of its weekday
\* name and the instant the rest of the string denotes.
DayNames == {"Tue", "Wed"}
DateHeaders == [dow : DayNames, t : 1..MaxTime]
\* Python's None, in the shape of a header so that values stay comparable.
None == [dow |-> "", t |-> 0]
\* A header that is present but not in the fixed layout.
Garbage == [dow |-> "Xyz", t |-> 0]
Headers == DateHeaders \cup {None, Garbage}

\* A parser that accepts any string.
ParsesAnything(s) == TRUE

\* datetime.strptime(s, "%a, %d %b %Y %H:%M:%S GMT"): the weekday name is
\* matched but not checked against the date, so it does not reach the result.
Parses(s) == s.dow \in DayNames /\ s.t \in 1..MaxTime
strptime(s) == s.t

\* The local archive file bag.zip: absent, or a sequence of chunks.
NoFile == [exists |-> FALSE, data |-> << >>]
GoodBody == [i \in 1..NChunks |-> "z"]
CorruptBody == [i \in 1..NChunks |-> IF i = NChunks THEN "x" ELSE "z"]
Bodies == {GoodBody, CorruptBody}

\* The check without the ZipFile/testzip part.
zip_file_is_not_empty(file) ==
    IF ~file.exists \/ Len(file.data) <= 0
    THEN FALSE
    ELSE TRUE

\* zip_file_is_valid(): exists, size > 0, opens as a zip and testzip() is None.
zip_file_is_valid(file) ==
    IF ~file.exists \/ Len(file.data) <= 0
    THEN FALSE
    ELSE file.data = GoodBody

\* The tabular export bag.csv and the destination table gov_data.
ColSets == {{"a"}, {"a", "b"}, {"a", "b", "c"}}
DbColumns == {"a", "b"}
NoCsv == [exists |-> FALSE, ok |-> FALSE, cols |-> {}, n |-> 0]
Malformed == [exists |-> TRUE, ok |-> FALSE, cols |-> {}, n |-> 0]
\* What export_to_csv.py may write: any number of rows in the table's columns,
\* or a full export in other columns.
Exports == {e \in [exists : {TRUE}, ok : {TRUE}, cols : ColSets, n : 0..MaxRows] :
               e.cols # DbColumns => e.n = MaxRows}
NoDf == [cols |-> {}, n |-> 0]

\* Row i of a dataframe with the given columns: each cell names its column.
DfRow(cols, i) == [c \in cols |-> <<c, i>>]
\* tuple(row[col] for col in db_columns), as the row the INSERT stores.
InsertValues(row) == [c \in DbColumns |-> row[c]]
\* The table a complete load of export e leaves.
LoadedRows(e) == [i \in 1..e.n |-> InsertValues(DfRow(e.cols, i))]
Tables == {LoadedRows([cols |-> DbColumns, n |-> k]) : k \in 0..MaxRows}

\* The metadata table: rows (key, value), key unique.
get_last_modified_from_db(md) ==
    IF \E e \in md : e.key = "last_modified"
    THEN (CHOOSE e \in md : e.key = "last_modified").value
    ELSE None

\* A plain INSERT, without the ON CONFLICT clause.
insert_last_modified_in_db(md, last_modified) ==
    md \cup {[key |-> "last_modified", value |-> last_modified]}

update_last_modified_in_db(md, last_modified) ==
    {e \in md : e.key # "last_modified"}
        \cup {[key |-> "last_modified", value |-> last_modified]}

\* The decision without the archive check.
NoUpdateRequiredByDateOnly(last_modified_db, last_modified_online, file) ==
    IF last_modified_db # None
    THEN last_modified_online <= strptime(last_modified_db)
    ELSE FALSE

\* Lines 191-193: the run returns early ("No update required") exactly when
\* this holds.  `if last_modified_db:` is false for None.
NoUpdateRequired(last_modified_db, last_modified_online, file) ==
    IF last_modified_db # None
    THEN /\ last_modified_online <= strptime(last_modified_db)
         /\ zip_file_is_valid(file)
    ELSE FALSE

NoOutcome == [kind |-> "None", error |-> ""]
Failed(err) == [kind |-> "Failed", error |-> err]
UpToDate == [kind |-> "UpToDate", error |-> ""]
Refreshed == [kind |-> "Refreshed", error |-> ""]

VARIABLES
    remote,     \* Last-Modified header the server reports (None: no header)
    metadata,   \* rows of the metadata table
    archive,    \* bag.zip
    csv,        \* bag.csv
    csvBy,      \* the run that wrote bag.csv (0: an earlier run)
    gov_data,   \* committed rows of gov_data
    baseline,   \* "synced": the last run ended without failure and nothing was
                \* changed from outside since; "damaged": the same, but for the
                \* local archive, which was damaged; "unknown": anything else
    pc,         \* position of each run
    hdr,        \* last_modified_header of the run
    conn,       \* the run's metadata connection: "none", "open", "closed"
    body,       \* the response body the run is streaming
    pos,        \* chunks of the body written so far
    df,         \* the loader's dataframe
    tx,         \* the loader's connection and its uncommitted view of gov_data
    pre,        \* the state when the run started
    did,        \* what the run has done so far
    outcome,    \* how the run ended
    DEBUG       \* the DEBUG flag each invocation read from its environment

vars == <<remote, metadata, archive, csv, csvBy, gov_data, baseline,
          pc, hdr, conn, body, pos, df, tx, pre, did, outcome, DEBUG>>

files == <<archive, csv, csvBy>>
locals == <<hdr, conn, body, pos, df, tx>>

NoTx == [conn |-> "none", rows |-> << >>]
NoPre == [metadata |-> {}, archive |-> NoFile, gov_data |-> << >>]

Init ==
    /\ remote \in Headers
    /\ metadata \in {{}} \cup {{[key |-> "last_modified", value |-> h]} : h \in DateHeaders}
    /\ archive \in {NoFile, [exists |-> TRUE, data |-> GoodBody]}
    /\ csv = NoCsv
    /\ csvBy = 0
    /\ gov_data \in Tables
    /\ baseline = "unknown"
    /\ pc = [p \in Procs |-> "idle"]
    /\ hdr = [p \in Procs |-> None]
    /\ conn = [p \in Procs |-> "none"]
    /\ body = [p \in Procs |-> GoodBody]
    /\ pos = [p \in Procs |-> 0]
    /\ df = [p \in Procs |-> NoDf]
    /\ tx = [p \in Procs |-> NoTx]
    /\ pre = [p \in Procs |-> NoPre]
    /\ did = [p \in Procs |-> {}]
    /\ outcome = [p \in Procs |-> NoOutcome]
    /\ DEBUG = [p \in Procs |-> FALSE]

AllIdle == \A p \in Procs : pc[p] = "idle"
Running(p) == pc[p] # "idle"

\* What a run records in did.  Upper case: a step it has taken; lower case:
\* the stage whose exception ended it.
Errors == {"metadata", "watermark", "fetch", "prepare", "import", "export",
           "parse", "schema", "truncate", "key", "insert"}

\* Lines 76-86: another run holds bag.zip open for writing, between its
\* open(..., "wb") and the end of its chunk loop.  A run that reads the file
\* then records the tag.
ReadDuringWrite(p, tag) ==
    IF \E q \in Procs \ {p} : pc[q] = "write" THEN {tag} ELSE {}

\* The exception leaves check_and_update_bag_data; its finally clause (line
\* 205) closes the metadata connection if the try block was entered.
Raise(p, err, steps) ==
    /\ pc' = [pc EXCEPT ![p] = "done"]
    /\ outcome' = [outcome EXCEPT ![p] = Failed(err)]
    /\ conn' = [conn EXCEPT ![p] = IF conn[p] = "open" THEN "closed" ELSE conn[p]]
    /\ did' = [did EXCEPT ![p] = @ \cup steps \cup {err}]

\* The script started with no regard to a run under way.
StartRunUnlocked(p) ==
    /\ pc[p] = "idle"
    /\ \E flag \in BOOLEAN : DEBUG' = [DEBUG EXCEPT ![p] = flag]
    /\ pc' = [pc EXCEPT ![p] = "head"]
    /\ pre' = [pre EXCEPT ![p] = [metadata |-> metadata, archive |-> archive,
                                  gov_data |-> gov_data]]
    /\ UNCHANGED <<remote, metadata, files, gov_data, baseline, locals, did, outcome>>

\* The script is started: line 18 reads DEBUG, line 208 calls the main function.
StartRun(p) ==
    /\ AllIdle
    /\ \E flag \in BOOLEAN : DEBUG' = [DEBUG EXCEPT ![p] = flag]
    /\ pc' = [pc EXCEPT ![p] = "head"]
    /\ pre' = [pre EXCEPT ![p] = [metadata |-> metadata, archive |-> archive,
                                  gov_data |-> gov_data]]
    /\ UNCHANGED <<remote, metadata, files, gov_data, baseline, locals, did, outcome>>

\* Lines 179-188: HEAD, the header checks and the metadata connection.
HeadRequest(p) ==
    /\ pc[p] = "head"
    /\ \E status \in {200, 503} :
        IF status # 200 \/ remote = None \/ ~Parses(remote)
        THEN /\ Raise(p, "metadata", {"HEAD"})
             /\ UNCHANGED hdr
        ELSE /\ hdr' = [hdr EXCEPT ![p] = remote]
             /\ conn' = [conn EXCEPT ![p] = "open"]
             /\ pc' = [pc EXCEPT ![p] = "check"]
             /\ did' = [did EXCEPT ![p] = @ \cup {"HEAD"}]
             /\ UNCHANGED outcome
    /\ UNCHANGED <<DEBUG, remote, metadata, files, gov_data, baseline, body, pos, df, tx, pre>>

\* The decision as the message of line 197 words it: DEBUG forces the download.
CheckDebugRefreshes(p) ==
    /\ pc[p] = "check"
    /\ LET last_modified_db == get_last_modified_from_db(metadata)
       IN IF last_modified_db # None /\ ~Parses(last_modified_db)
          THEN Raise(p, "watermark", {})
          ELSE IF ~DEBUG[p] /\ NoUpdateRequired(last_modified_db, strptime(hdr[p]), archive)
          THEN /\ pc' = [pc EXCEPT ![p] = "done"]
               /\ outcome' = [outcome EXCEPT ![p] = UpToDate]
               /\ conn' = [conn EXCEPT ![p] = "closed"]
               /\ UNCHANGED did
          ELSE /\ pc' = [pc EXCEPT ![p] = "get"]
               /\ UNCHANGED <<outcome, conn, did>>
    /\ UNCHANGED <<DEBUG, remote, metadata, files, gov_data, baseline, hdr, body, pos, df, tx, pre>>

\* The decision with the watermark brought up to the header before the early
\* return.
CheckTouchingWatermark(p) ==
    /\ pc[p] = "check"
    /\ LET last_modified_db == get_last_modified_from_db(metadata)
       IN IF last_modified_db # None /\ ~Parses(last_modified_db)
          THEN /\ Raise(p, "watermark", {})
               /\ UNCHANGED metadata
          ELSE IF NoUpdateRequired(last_modified_db, strptime(hdr[p]), archive)
          THEN /\ pc' = [pc EXCEPT ![p] = "done"]
               /\ outcome' = [outcome EXCEPT ![p] = UpToDate]
               /\ conn' = [conn EXCEPT ![p] = "closed"]
               /\ metadata' = update_last_modified_in_db(metadata, hdr[p])
               /\ UNCHANGED did
          ELSE /\ pc' = [pc EXCEPT ![p] = "get"]
               /\ UNCHANGED <<outcome, conn, did, metadata>>
    /\ UNCHANGED <<DEBUG, remote, files, gov_data, baseline, hdr, body, pos, df, tx, pre>>

\* Lines 190-197: the freshness decision.  zip_file_is_valid() is called, and
\* bag.zip read, only when the date comparison holds.
Check(p) ==
    /\ pc[p] = "check"
    /\ LET last_modified_db == get_last_modified_from_db(metadata)
           reads == IF NoUpdateRequiredByDateOnly(last_modified_db, strptime(hdr[p]), archive)
                    THEN ReadDuringWrite(p, "CHECK_IN_WRITE")
                    ELSE {}
       IN IF last_modified_db # None /\ ~Parses(last_modified_db)
          THEN Raise(p, "watermark", {})
          ELSE IF NoUpdateRequired(last_modified_db, strptime(hdr[p]), archive)
          THEN /\ pc' = [pc EXCEPT ![p] = "done"]
               /\ outcome' = [outcome EXCEPT ![p] = UpToDate]
               /\ conn' = [conn EXCEPT ![p] = "closed"]
               /\ did' = [did EXCEPT ![p] = @ \cup reads]
          ELSE /\ pc' = [pc EXCEPT ![p] = "get"]
               /\ did' = [did EXCEPT ![p] = @ \cup reads]
               /\ UNCHANGED <<outcome, conn>>
    /\ UNCHANGED <<DEBUG, remote, metadata, files, gov_data, baseline, hdr, body, pos, df, tx, pre>>

\* Lines 72-76 of download_file_with_progress: the GET and open(..., "wb").
Get(p) ==
    /\ pc[p] = "get"
    /\ \E status \in {200, 404}, b \in Bodies :
        IF status # 200
        THEN /\ Raise(p, "fetch", {"GET"})
             /\ UNCHANGED <<archive, body, pos>>
        ELSE /\ archive' = [exists |-> TRUE, data |-> << >>]
             /\ body' = [body EXCEPT ![p] = b]
             /\ pos' = [pos EXCEPT ![p] = 0]
             /\ pc' = [pc EXCEPT ![p] = "write"]
             /\ did' = [did EXCEPT ![p] = @ \cup {"GET"}]
             /\ UNCHANGED <<outcome, conn>>
    /\ UNCHANGED <<DEBUG, remote, metadata, csv, csvBy, gov_data, baseline, hdr, df, tx, pre>>

\* file.write(chunk) at the handle's own offset.
WriteAt(data, offset, chunk) ==
    IF offset < Len(data)
    THEN [data EXCEPT ![offset + 1] = chunk]
    ELSE Append(data, chunk)

\* Lines 83-86: one turn of the iter_content loop; the stream may break.
WriteChunk(p) ==
    /\ pc[p] = "write"
    /\ \/ /\ archive' = [exists |-> TRUE,
                         data |-> WriteAt(archive.data, pos[p], body[p][pos[p] + 1])]
          /\ pos' = [pos EXCEPT ![p] = @ + 1]
          /\ pc' = [pc EXCEPT ![p] = IF pos[p] + 1 = NChunks THEN "prepare" ELSE "write"]
          /\ did' = [did EXCEPT ![p] = @ \cup {"WRITE"}]
          /\ UNCHANGED <<outcome, conn>>
       \/ /\ Raise(p, "fetch", {})
          /\ UNCHANGED <<archive, pos>>
    /\ UNCHANGED <<DEBUG, remote, metadata, csv, csvBy, gov_data, baseline, hdr, body, df, tx, pre>>

\* The git subprocess without check=True: a failed clone or pull is ignored.
PrepareUnchecked(p) ==
    /\ pc[p] = "prepare"
    /\ \/ /\ pc' = [pc EXCEPT ![p] = "import"]
          /\ UNCHANGED <<outcome, conn, did>>
       \/ /\ pc' = [pc EXCEPT ![p] = "import"]
          /\ did' = [did EXCEPT ![p] = @ \cup {"prepare"}]
          /\ UNCHANGED <<outcome, conn>>
    /\ UNCHANGED <<DEBUG, remote, metadata, files, gov_data, baseline, hdr, body, pos, df, tx, pre>>

\* Lines 199-200: clone_bag_parse_repo and update_config.
Prepare(p) ==
    /\ pc[p] = "prepare"
    /\ \/ /\ pc' = [pc EXCEPT ![p] = "import"]
          /\ UNCHANGED <<outcome, conn, did>>
       \/ Raise(p, "prepare", {})
    /\ UNCHANGED <<DEBUG, remote, metadata, files, gov_data, baseline, hdr, body, pos, df, tx, pre>>

\* Line 120: import_bag.py, archive to bag.sqlite; check=True raises on a
\* non-zero exit.  The tool's exit status is all the script sees of it.
ImportBag(p) ==
    /\ pc[p] = "import"
    /\ LET steps == (IF zip_file_is_valid(archive) THEN {"IMPORT"}
                     ELSE {"IMPORT", "IMPORT_INVALID"})
                    \cup ReadDuringWrite(p, "IMPORT_IN_WRITE")
       IN \/ /\ pc' = [pc EXCEPT ![p] = "export"]
             /\ did' = [did EXCEPT ![p] = @ \cup steps]
             /\ UNCHANGED <<outcome, conn>>
          \/ Raise(p, "import", steps)
    /\ UNCHANGED <<DEBUG, remote, metadata, files, gov_data, baseline, hdr, body, pos, df, tx, pre>>

\* The second subprocess.run without check=True.
ExportCsvUnchecked(p) ==
    /\ pc[p] = "export"
    /\ \/ /\ csv' \in Exports
          /\ csvBy' = p
          /\ pc' = [pc EXCEPT ![p] = "load"]
          /\ did' = [did EXCEPT ![p] = @ \cup {"EXPORT"}]
          /\ UNCHANGED <<outcome, conn>>
       \/ /\ csv' \in {csv, Malformed}
          /\ UNCHANGED csvBy
          /\ pc' = [pc EXCEPT ![p] = "load"]
          /\ did' = [did EXCEPT ![p] = @ \cup {"EXPORT", "export"}]
          /\ UNCHANGED <<outcome, conn>>
    /\ UNCHANGED <<DEBUG, remote, metadata, archive, gov_data, baseline, hdr, body, pos, df, tx, pre>>

\* Lines 121-123: export_to_csv.py, bag.sqlite to bag.csv.  A stage that
\* fails leaves bag.csv as it was or half written.
ExportCsv(p) ==
    /\ pc[p] = "export"
    /\ \/ /\ csv' \in Exports
          /\ csvBy' = p
          /\ pc' = [pc EXCEPT ![p] = "load"]
          /\ did' = [did EXCEPT ![p] = @ \cup {"EXPORT"}]
          /\ UNCHANGED <<outcome, conn>>
       \/ /\ csv' \in {csv, Malformed}
          /\ UNCHANGED csvBy
          /\ Raise(p, "export", {"EXPORT"})
    /\ UNCHANGED <<DEBUG, remote, metadata, archive, gov_data, baseline, hdr, body, pos, df, tx, pre>>

\* The handler without the finally clause of line 174: the loader's
\* connection stays open.
LoadRaiseNoClose(p, err, steps) ==
    /\ tx' = [tx EXCEPT ![p] = [conn |-> "open", rows |-> << >>]]
    /\ Raise(p, err, steps)

\* The except clause without its `raise`: the caller goes on to line 203.
LoadRaiseSwallowed(p, err, steps) ==
    /\ tx' = [tx EXCEPT ![p] = [conn |-> "closed", rows |-> << >>]]
    /\ pc' = [pc EXCEPT ![p] = "store"]
    /\ did' = [did EXCEPT ![p] = @ \cup steps \cup {err}]
    /\ UNCHANGED <<outcome, conn>>

\* Lines 170-175 and 204-205: rollback, re-raise, close both connections.
LoadRaise(p, err, steps) ==
    /\ tx' = [tx EXCEPT ![p] = [conn |-> "closed", rows |-> << >>]]
    /\ Raise(p, err, steps)

\* Lines 127-140: connect, pd.read_csv and the column query.
ReadCsv(p) ==
    /\ pc[p] = "load"
    /\ LET steps == IF csvBy = p THEN {"LOAD"} ELSE {"LOAD", "LOAD_STALE"}
       IN \E schema_ok \in BOOLEAN :
            IF ~csv.exists \/ ~csv.ok
            THEN /\ LoadRaise(p, "parse", steps)
                 /\ UNCHANGED df
            ELSE IF ~schema_ok
            THEN /\ LoadRaise(p, "schema", steps)
                 /\ UNCHANGED df
            ELSE /\ df' = [df EXCEPT ![p] = [cols |-> csv.cols, n |-> csv.n]]
                 /\ tx' = [tx EXCEPT ![p] = [conn |-> "open", rows |-> gov_data]]
                 /\ pc' = [pc EXCEPT ![p] = "truncate"]
                 /\ did' = [did EXCEPT ![p] = @ \cup steps]
                 /\ UNCHANGED <<outcome, conn>>
    /\ UNCHANGED <<DEBUG, remote, metadata, files, gov_data, baseline, hdr, body, pos, pre>>

\* The TRUNCATE on a connection in autocommit mode.
TruncateAutocommit(p) ==
    /\ pc[p] = "truncate"
    /\ \/ /\ tx' = [tx EXCEPT ![p].rows = << >>]
          /\ gov_data' = << >>
          /\ pc' = [pc EXCEPT ![p] = "insert"]
          /\ did' = [did EXCEPT ![p] = @ \cup {"TRUNCATE"}]
          /\ UNCHANGED <<outcome, conn>>
       \/ /\ LoadRaise(p, "truncate", {})
          /\ UNCHANGED gov_data
    /\ UNCHANGED <<DEBUG, remote, metadata, files, baseline, hdr, body, pos, df, pre>>

\* Line 155: TRUNCATE TABLE gov_data inside the open transaction.
Truncate(p) ==
    /\ pc[p] = "truncate"
    /\ \/ /\ tx' = [tx EXCEPT ![p].rows = << >>]
          /\ pc' = [pc EXCEPT ![p] = "insert"]
          /\ did' = [did EXCEPT ![p] = @ \cup {"TRUNCATE"}]
          /\ UNCHANGED <<outcome, conn>>
       \/ LoadRaise(p, "truncate", {})
    /\ UNCHANGED <<DEBUG, remote, metadata, files, gov_data, baseline, hdr, body, pos, df, pre>>

\* Lines 159-166: one turn of the iterrows loop.  row[col] raises KeyError
\* for a table column the export lacks; the sink may reject the row.
InsertRow(p) ==
    /\ pc[p] = "insert"
    /\ Len(tx[p].rows) < df[p].n
    /\ \E accepted \in BOOLEAN :
        IF ~(DbColumns \subseteq df[p].cols)
        THEN LoadRaise(p, "key", {})
        ELSE IF ~accepted
        THEN LoadRaise(p, "insert", {})
        ELSE /\ tx' = [tx EXCEPT ![p].rows =
                         Append(@, InsertValues(DfRow(df[p].cols, Len(@) + 1)))]
             /\ did' = [did EXCEPT ![p] = @ \cup {"INSERT"}]
             /\ UNCHANGED <<pc, outcome, conn>>
    /\ UNCHANGED <<DEBUG, remote, metadata, files, gov_data, baseline, hdr, body, pos, df, pre>>

\* conn.commit() inside the loop body: the load is committed after one row.
CommitInLoop(p) ==
    /\ pc[p] = "insert"
    /\ Len(tx[p].rows) = (IF df[p].n = 0 THEN 0 ELSE 1)
    /\ gov_data' = tx[p].rows
    /\ tx' = [tx EXCEPT ![p] = [conn |-> "closed", rows |-> << >>]]
    /\ did' = [did EXCEPT ![p] = @ \cup {"COMMIT"}]
    /\ pc' = [pc EXCEPT ![p] = "store"]
    /\ UNCHANGED <<DEBUG, remote, metadata, files, baseline, hdr, conn, body, pos, df, pre, outcome>>

\* Lines 168-175: commit after the loop, then the finally clause.
Commit(p) ==
    /\ pc[p] = "insert"
    /\ Len(tx[p].rows) = df[p].n
    /\ gov_data' = tx[p].rows
    /\ tx' = [tx EXCEPT ![p] = [conn |-> "closed", rows |-> << >>]]
    /\ did' = [did EXCEPT ![p] = @ \cup {"COMMIT"}]
    /\ pc' = [pc EXCEPT ![p] = "store"]
    /\ UNCHANGED <<DEBUG, remote, metadata, files, baseline, hdr, conn, body, pos, df, pre, outcome>>

\* Line 203 with last_modified_online, the parsed datetime, in place of the
\* header string: what is stored is not in the header layout.
StoreWatermarkParsed(p) ==
    /\ pc[p] = "store"
    /\ metadata' = update_last_modified_in_db(metadata, [dow |-> "", t |-> strptime(hdr[p])])
    /\ conn' = [conn EXCEPT ![p] = "closed"]
    /\ did' = [did EXCEPT ![p] = @ \cup {"UPSERT"}]
    /\ outcome' = [outcome EXCEPT ![p] = Refreshed]
    /\ pc' = [pc EXCEPT ![p] = "done"]
    /\ UNCHANGED <<DEBUG, remote, files, gov_data, baseline, hdr, body, pos, df, tx, pre>>

\* Line 203 with a timestamp converted to a zone behind GMT.
StoreWatermarkShifted(p) ==
    /\ pc[p] = "store"
    /\ metadata' = update_last_modified_in_db(metadata,
                        [dow |-> hdr[p].dow, t |-> strptime(hdr[p]) - 1])
    /\ conn' = [conn EXCEPT ![p] = "closed"]
    /\ did' = [did EXCEPT ![p] = @ \cup {"UPSERT"}]
    /\ outcome' = [outcome EXCEPT ![p] = Refreshed]
    /\ pc' = [pc EXCEPT ![p] = "done"]
    /\ UNCHANGED <<DEBUG, remote, files, gov_data, baseline, hdr, body, pos, df, tx, pre>>

\* Lines 203-205: the watermark upsert with the header string of this run.
StoreWatermark(p) ==
    /\ pc[p] = "store"
    /\ metadata' = update_last_modified_in_db(metadata, hdr[p])
    /\ conn' = [conn EXCEPT ![p] = "closed"]
    /\ did' = [did EXCEPT ![p] = @ \cup {"UPSERT"}]
    /\ outcome' = [outcome EXCEPT ![p] = Refreshed]
    /\ pc' = [pc EXCEPT ![p] = "done"]
    /\ UNCHANGED <<DEBUG, remote, files, gov_data, baseline, hdr, body, pos, df, tx, pre>>

\* The process exits; the next invocation starts from a fresh interpreter.
Exit(p) ==
    /\ pc[p] = "done"
    /\ baseline' = IF outcome[p].kind = "Failed" THEN "unknown" ELSE "synced"
    /\ csvBy' = IF csvBy = p THEN 0 ELSE csvBy
    /\ pc' = [pc EXCEPT ![p] = "idle"]
    /\ hdr' = [hdr EXCEPT ![p] = None]
    /\ conn' = [conn EXCEPT ![p] = "none"]
    /\ body' = [body EXCEPT ![p] = GoodBody]
    /\ pos' = [pos EXCEPT ![p] = 0]
    /\ df' = [df EXCEPT ![p] = NoDf]
    /\ tx' = [tx EXCEPT ![p] = NoTx]
    /\ pre' = [pre EXCEPT ![p] = NoPre]
    /\ did' = [did EXCEPT ![p] = {}]
    /\ outcome' = [outcome EXCEPT ![p] = NoOutcome]
    /\ DEBUG' = [DEBUG EXCEPT ![p] = FALSE]
    /\ UNCHANGED <<remote, metadata, archive, csv, gov_data>>

\* The publisher replaces the remote resource between runs.
RemotePublish ==
    /\ AllIdle
    /\ \E h \in Headers \ {remote} : remote' = h
    /\ baseline' = "unknown"
    /\ UNCHANGED <<DEBUG, metadata, files, gov_data, pc, locals, pre, did, outcome>>

\* Between runs the local archive is deleted, emptied or corrupted.
DamageArchive ==
    /\ AllIdle
    /\ \E f \in {NoFile, [exists |-> TRUE, data |-> << >>],
                 [exists |-> TRUE, data |-> CorruptBody]} \ {archive} :
           archive' = f
    /\ baseline' = IF baseline = "unknown" THEN "unknown" ELSE "damaged"
    /\ UNCHANGED <<DEBUG, remote, metadata, csv, csvBy, gov_data, pc, locals, pre, did, outcome>>

Run(p) ==
    \/ StartRun(p)
    \/ HeadRequest(p)
    \/ Check(p)
    \/ Get(p)
    \/ WriteChunk(p)
    \/ Prepare(p)
    \/ ImportBag(p)
    \/ ExportCsv(p)
    \/ ReadCsv(p)
    \/ Truncate(p)
    \/ InsertRow(p)
    \/ Commit(p)
    \/ StoreWatermark(p)
    \/ Exit(p)

Next ==
    \/ \E p \in Procs : Run(p)
    \/ RemotePublish
    \/ DamageArchive

Spec == Init /\ [][Next]_vars

\* ---------------------------------------------- a publisher that moves forward
\* The remote header always parses, and the stored watermark, if any, is not
\* later than it.
InitMono ==
    /\ Init
    /\ remote \in DateHeaders
    /\ \A e \in metadata : strptime(e.value) <= strptime(remote)

\* The publisher replaces the resource by one with a timestamp not earlier.
RemotePublishLater ==
    /\ AllIdle
    /\ \E h \in DateHeaders \ {remote} :
           /\ strptime(remote) <= strptime(h)
           /\ remote' = h
    /\ baseline' = "unknown"
    /\ UNCHANGED <<DEBUG, metadata, files, gov_data, pc, locals, pre, did, outcome>>

NextMono ==
    \/ \E p \in Procs : Run(p)
    \/ RemotePublishLater
    \/ DamageArchive

SpecMono == InitMono /\ [][NextMono]_vars

\* ------------------------------------------------- runs without a common lock
\* The script is started again while the run of a first installation is
\* inside its chunk loop, the long download of the whole archive.
StartOverlapping(q) ==
    /\ pc[q] = "idle"
    /\ \E p \in Procs \ {q} :
           /\ pc[p] = "write"
           /\ pre[p].metadata = {} /\ pre[p].archive = NoFile
           /\ \A r \in Procs \ {p, q} : pc[r] = "idle"
    /\ \E flag \in BOOLEAN : DEBUG' = [DEBUG EXCEPT ![q] = flag]
    /\ pc' = [pc EXCEPT ![q] = "head"]
    /\ pre' = [pre EXCEPT ![q] = [metadata |-> metadata, archive |-> archive,
                                  gov_data |-> gov_data]]
    /\ did' = [did EXCEPT ![q] = {"OVERLAP"}]
    /\ UNCHANGED <<remote, metadata, files, gov_data, baseline, locals, outcome>>

\* The interleavings followed: the run inside its chunk loop waits on the
\* network while the run started over it proceeds.
Scheduled(p) == \A q \in Procs \ {p} : Running(q) => "OVERLAP" \notin did[q]

\* A first installation: nothing downloaded, nothing loaded, no watermark.
InitConc ==
    /\ Init
    /\ remote \in {h \in DateHeaders : strptime(h) = MaxTime}
    /\ metadata = {}
    /\ archive = NoFile
    /\ gov_data = << >>

NextConc ==
    \/ \E p \in Procs : Scheduled(p) /\ Run(p)
    \/ \E q \in Procs : StartOverlapping(q)

SpecConc == InitConc /\ [][NextConc]_vars

\* ------------------------------------------------------------- properties
Ended(p) == pc[p] = "done"
StageFailed(p) == did[p] \cap Errors # {}
Watermarks(md) == {e \in md : e.key = "last_modified"}

\* C1: in a run in which a stage has failed the stored watermark is the one
\* the run started with, and the watermark is written only by a run whose
\* table load was committed and in which no stage failed.
WatermarkGating ==
    \A p \in Procs :
        /\ StageFailed(p) => metadata = pre[p].metadata
        /\ (Running(p) /\ metadata # pre[p].metadata) => "UPSERT" \in did[p]
        /\ "UPSERT" \in did[p] => "COMMIT" \in did[p] /\ ~StageFailed(p)

\* A run that failed in the load, after the TRUNCATE, while the remote
\* reported a header other than the stored watermark.
WatermarkGatingWitness ==
    \E p \in Procs :
        /\ Ended(p) /\ outcome[p] = Failed("insert")
        /\ "TRUNCATE" \in did[p]
        /\ Watermarks(metadata) # {[key |-> "last_modified", value |-> hdr[p]]}
        /\ metadata # {}

\* C2: after a run that ended Refreshed the metadata table holds exactly one
\* last_modified entry, and its value is the header string the remote reports.
RefreshedStoresHeader ==
    \A p \in Procs :
        (Ended(p) /\ outcome[p].kind = "Refreshed") =>
            Watermarks(metadata) = {[key |-> "last_modified", value |-> remote]}

\* A Refreshed run that replaced a watermark naming the same instant under
\* another weekday name.
RefreshedStoresHeaderWitness ==
    \E p \in Procs :
        /\ Ended(p) /\ outcome[p].kind = "Refreshed"
        /\ \E e \in pre[p].metadata :
              e.value # remote /\ strptime(e.value) = strptime(remote)

\* C3: a run skips the refresh (ends UpToDate) only if a watermark is stored,
\* the remote instant is not later than it and the local archive is valid;
\* a run goes on to the download whenever one of the three fails.
Fresh(p) ==
    /\ pre[p].metadata # {}
    /\ \A e \in pre[p].metadata : remote.t <= e.value.t
    /\ pre[p].archive.exists
    /\ pre[p].archive.data = GoodBody
FreshnessDecision ==
    \A p \in Procs :
        /\ (Ended(p) /\ outcome[p].kind = "UpToDate") => Fresh(p)
        /\ (pc[p] = "get" \/ "GET" \in did[p]) => ~Fresh(p)
        /\ (Ended(p) /\ "HEAD" \in did[p] /\ ~StageFailed(p) /\ "GET" \notin did[p])
              => outcome[p].kind = "UpToDate"

\* A run that skipped although the stored and the remote header differ as
\* strings.
FreshnessDecisionWitness ==
    \E p \in Procs :
        /\ Ended(p) /\ outcome[p].kind = "UpToDate"
        /\ \E e \in metadata : e.value # remote /\ e.value.t = remote.t

\* C4: while a load is under way and after a load that failed, the committed
\* rows of gov_data are the rows it had before; the committed rows change
\* only to the complete rows of the dataframe being loaded.
AtomicLoad ==
    \A p \in Procs :
        /\ ("LOAD" \in did[p] /\ "COMMIT" \notin did[p]) => gov_data = pre[p].gov_data
        /\ (Running(p) /\ gov_data # pre[p].gov_data) =>
              /\ "COMMIT" \in did[p]
              /\ Len(gov_data) = df[p].n
              /\ \A i \in 1..Len(gov_data) : \A c \in DbColumns : gov_data[i][c] = <<c, i>>

\* A load that failed on its second row, over a table that was not empty.
AtomicLoadWitness ==
    \E p \in Procs :
        /\ Ended(p) /\ outcome[p] = Failed("insert")
        /\ "INSERT" \in did[p]
        /\ pre[p].gov_data # << >>

\* C5: a load whose export has another column set than gov_data leaves the
\* committed rows of gov_data as they were and ends the run in failure.
DriftAborts ==
    \A p \in Procs :
        ("LOAD" \in did[p] /\ df[p] # NoDf /\ df[p].cols # DbColumns) =>
            /\ gov_data = pre[p].gov_data
            /\ Ended(p) => outcome[p].kind = "Failed"

\* C6: a run that starts when the last run ended without failure and nothing
\* was changed from outside since, and whose HEAD request was answered as
\* before, ends UpToDate without a GET.
SecondRunUpToDate ==
    \A p \in Procs :
        (baseline = "synced" /\ "HEAD" \in did[p] /\ "metadata" \notin did[p]) =>
            /\ "GET" \notin did[p]
            /\ pc[p] \in {"check", "done"}
            /\ Ended(p) => outcome[p].kind = "UpToDate"

\* C7: once the download loop of a run has finished, the archive passes the
\* integrity check in every later stage of that run; conversion never starts
\* on an archive that fails it.
PostFetchIntegrity ==
    \A p \in Procs :
        /\ pc[p] \in {"prepare", "import", "export", "load", "truncate", "insert", "store"}
              => zip_file_is_valid(archive)
        /\ "IMPORT_INVALID" \notin did[p]

\* C8: after a run in which a stage failed, an archive that was valid when the
\* run started is still valid, and gov_data holds its rows from before the
\* run or the complete rows of one export.
NeverWorseAfterFailure ==
    \A p \in Procs :
        (Ended(p) /\ StageFailed(p)) =>
            /\ zip_file_is_valid(pre[p].archive) => zip_file_is_valid(archive)
            /\ \/ gov_data = pre[p].gov_data
               \/ \E e \in Exports : DbColumns \subseteq e.cols /\ gov_data = LoadedRows(e)

\* C9: a run that starts after a run without failure, the archive having been
\* damaged since and the remote unchanged, does not end UpToDate; unless its
\* HEAD request fails it issues the GET, and what it then hands to the
\* conversion is the whole response body written from the start of the file.
CacheSelfHealing ==
    \A p \in Procs :
        (baseline = "damaged" /\ Running(p)) =>
            /\ outcome[p].kind # "UpToDate"
            /\ (Ended(p) /\ "metadata" \notin did[p]) => "GET" \in did[p]
            /\ pc[p] \in {"prepare", "import"} =>
                  archive = [exists |-> TRUE, data |-> body[p]]

\* A run over a damaged archive, under a watermark as late as the remote, that
\* went through to Refreshed.
CacheSelfHealingWitness ==
    \E p \in Procs :
        /\ baseline = "damaged"
        /\ Ended(p) /\ outcome[p].kind = "Refreshed"
        /\ ~zip_file_is_valid(pre[p].archive)
        /\ \E e \in pre[p].metadata : remote.t <= e.value.t

\* C10: a run in which a conversion stage failed has ended with that failure
\* without invoking the loader, gov_data and the watermark being as at its
\* start; the loader only ever reads a bag.csv that the second stage of the
\* same run wrote.
ConversionFailureAborts ==
    \A p \in Procs :
        /\ ("import" \in did[p] \/ "export" \in did[p]) =>
              /\ Ended(p)
              /\ outcome[p] \in {Failed("import"), Failed("export")}
              /\ "LOAD" \notin did[p]
              /\ gov_data = pre[p].gov_data
              /\ metadata = pre[p].metadata
        /\ "import" \in did[p] => "EXPORT" \notin did[p]
        /\ "LOAD" \in did[p] => "EXPORT" \in did[p] /\ "LOAD_STALE" \notin did[p]

\* A run whose second stage failed while a well-formed bag.csv of an earlier
\* run lay on disk.
ConversionFailureAbortsWitness ==
    \E p \in Procs :
        /\ Ended(p) /\ outcome[p] = Failed("export")
        /\ csv.exists /\ csv.ok /\ csvBy = 0

\* C11: a run whose HEAD response is no success, has no Last-Modified header
\* or has one that does not parse has ended in failure with nothing touched:
\* no GET, no connection, archive, gov_data and watermark as at its start.
\* A header that is missing or not a date always ends the run that way.
MetadataFailure ==
    \A p \in Procs :
        /\ "metadata" \in did[p] =>
              /\ Ended(p) /\ outcome[p] = Failed("metadata")
              /\ did[p] = {"HEAD", "metadata"}
              /\ conn[p] = "none" /\ tx[p].conn = "none"
              /\ archive = pre[p].archive
              /\ gov_data = pre[p].gov_data
              /\ metadata = pre[p].metadata
        /\ ("HEAD" \in did[p] /\ remote \notin DateHeaders) => "metadata" \in did[p]

\* A run stopped by a header that does not parse, with a valid archive and a
\* stored watermark at hand.
MetadataFailureWitness ==
    \E p \in Procs :
        /\ Ended(p) /\ "metadata" \in did[p]
        /\ remote = Garbage
        /\ archive.exists /\ archive.data = GoodBody
        /\ metadata # {}

\* C12: after a committed load of an export in the table's own columns,
\* gov_data holds row for row the rows of bag.csv, each value under the
\* column of its name.
FullReplace ==
    \A p \in Procs :
        ("COMMIT" \in did[p] /\ csv.cols = DbColumns) =>
            /\ Len(gov_data) = csv.n
            /\ \A i \in 1..csv.n : DOMAIN gov_data[i] = DbColumns
            /\ \A i \in 1..csv.n : \A c \in DbColumns : gov_data[i][c] = <<c, i>>

\* A committed load of a non-empty export over a table that held more rows.
FullReplaceWitness ==
    \E p \in Procs :
        /\ "COMMIT" \in did[p] /\ csv.cols = DbColumns
        /\ csv.n >= 1
        /\ Len(pre[p].gov_data) > csv.n

\* C13: a load is committed only after the TRUNCATE and one INSERT per row of
\* the dataframe, none of which failed; a load in which anything failed left
\* gov_data as it was; the loader's connection is open only between the
\* connect and the end of the load, and closed on every way out.
LoaderErrors == {"parse", "schema", "truncate", "key", "insert"}
LoadTransactionScope ==
    \A p \in Procs :
        /\ "COMMIT" \in did[p] =>
              /\ "TRUNCATE" \in did[p]
              /\ did[p] \cap LoaderErrors = {}
              /\ Len(gov_data) = df[p].n
        /\ did[p] \cap LoaderErrors # {} =>
              /\ "COMMIT" \notin did[p]
              /\ gov_data = pre[p].gov_data
        /\ "LOAD" \in did[p] =>
              tx[p].conn = (IF pc[p] \in {"truncate", "insert"} THEN "open" ELSE "closed")
        /\ "LOAD" \notin did[p] => tx[p].conn = "none"

\* A load that failed on a KeyError after the TRUNCATE, its connection closed.
LoadTransactionScopeWitness ==
    \E p \in Procs :
        /\ Ended(p) /\ "key" \in did[p] /\ "TRUNCATE" \in did[p]
        /\ tx[p].conn = "closed"
        /\ pre[p].gov_data # << >>

\* C14: a run in which a stage failed has ended, as Failed with the error of
\* that stage; it holds one error only, and no step of a later stage.
StageOf(tag) ==
    CASE tag \in {"OVERLAP", "HEAD", "CHECK_IN_WRITE", "metadata", "watermark"} -> 1
      [] tag \in {"GET", "WRITE", "fetch"} -> 2
      [] tag = "prepare" -> 3
      [] tag \in {"IMPORT", "IMPORT_INVALID", "IMPORT_IN_WRITE", "import"} -> 4
      [] tag \in {"EXPORT", "export"} -> 5
      [] tag \in {"LOAD", "LOAD_STALE", "TRUNCATE", "INSERT", "COMMIT"} \cup LoaderErrors -> 6
      [] OTHER -> 7
NoSwallowing ==
    \A p \in Procs :
        /\ StageFailed(p) =>
              /\ Ended(p)
              /\ outcome[p].kind = "Failed"
              /\ did[p] \cap Errors = {outcome[p].error}
              /\ \A tag \in did[p] : StageOf(tag) <= StageOf(outcome[p].error)
        /\ (Ended(p) /\ outcome[p].kind = "Failed") => outcome[p].error \in did[p]

\* A run that ended with the loader's re-raised error after its rollback.
NoSwallowingWitness ==
    \E p \in Procs :
        /\ Ended(p) /\ outcome[p] = Failed("truncate")
        /\ tx[p].conn = "closed"

\* C15: the steps a run takes up to the freshness decision change neither
\* bag.zip, bag.csv, gov_data nor the watermark, and a run that ends UpToDate
\* has taken no other step: it made the HEAD request only, and the archive,
\* the table and the watermark are those of its start.
UpToDateIsNoOp ==
    [][\A p \in Procs :
          /\ pc[p] \in {"head", "check"} =>
                /\ archive' = archive /\ csv' = csv
                /\ gov_data' = gov_data /\ metadata' = metadata
          /\ outcome'[p].kind = "UpToDate" =>
                /\ pc[p] \in {"check", "done"}
                /\ did'[p] = {"HEAD"}
                /\ archive' = pre'[p].archive
                /\ gov_data' = pre'[p].gov_data
                /\ metadata' = pre'[p].metadata
                /\ tx'[p].conn = "none" /\ df'[p] = NoDf /\ pos'[p] = 0]_vars

\* An UpToDate run over a loaded table and a left-over export, the remote
\* header differing from the stored one in its weekday name only.
UpToDateIsNoOpWitness ==
    \E p \in Procs :
        /\ Ended(p) /\ outcome[p].kind = "UpToDate"
        /\ csv.exists /\ gov_data # << >>
        /\ \E e \in metadata : e.value # remote

\* C17: every stored watermark is a string in the header layout, and no run
\* fails parsing the watermark it read.
WatermarkParses ==
    /\ \A e \in metadata : e.value.dow \in DayNames /\ e.value.t >= 1
    /\ \A p \in Procs : "watermark" \notin did[p]

\* A run that parsed a stored watermark and went on to replace it.
WatermarkParsesWitness ==
    \E p \in Procs :
        /\ "UPSERT" \in did[p]
        /\ pre[p].metadata # {}
        /\ metadata # pre[p].metadata

WatermarkMonotone ==
    [][/\ \A e \in metadata : \A e2 \in metadata' :
              strptime(e.value) <= strptime(e2.value)
       /\ metadata # {} => metadata' # {}
       /\ \A e2 \in metadata' : strptime(e2.value) <= strptime(remote')]_vars

\* A refresh brought about by an invalid archive alone: the watermark the run
\* started with was not older than the remote header, and the run stored one.
WatermarkMonotoneWitness ==
    \E p \in Procs :
        /\ Ended(p) /\ outcome[p].kind = "Refreshed"
        /\ pre[p].metadata # {}
        /\ \A e \in pre[p].metadata : strptime(hdr[p]) <= strptime(e.value)
        /\ ~zip_file_is_valid(pre[p].archive)

\* C16: a run reads bag.zip, for the validity check or for the conversion,
\* while another run is inside its chunk loop only if it was started over a
\* run under way; runs started one after the other never do.
NoReadDuringWrite ==
    \A q \in Procs :
        did[q] \cap {"CHECK_IN_WRITE", "IMPORT_IN_WRITE"} # {} =>
            "OVERLAP" \in did[q]

\* A run that tested the archive and then started the conversion on it, both
\* while the other run was still inside its chunk loop.
NoReadDuringWriteWitness ==
    \E q \in Procs : \E p \in Procs \ {q} :
        /\ pc[p] = "write"
        /\ {"CHECK_IN_WRITE", "IMPORT_IN_WRITE"} \subseteq did[q]
====
